---- MODULE Spec2Model ----
(***************************************************************************)
(* Model of linked_to_epstein.py: the contact extractor                    *)
(* (parse_linkedin_contacts), the lookup client (search_epstein_files),    *)
(* the report renderer (generate_html_report) and the driver (main).       *)
(*                                                                         *)
(* Text is modelled as a sequence of tokens: a token is either the         *)
(* whitespace token " " or a word.  A csv line is the sequence of its      *)
(* fields, a file the sequence of its lines.                               *)
(***************************************************************************)
EXTENDS Integers, Sequences, FiniteSets, TLC

\* ---------------------------------------------------------------- bounds
MaxLines == 3       \* lines of an input file
MaxHits == 5        \* largest totalHits the remote answers
MaxRetries == 3     \* largest max_retries search_epstein_files is called with

\* ------------------------------------------------------- program constants
DefaultMaxRetries == 1      \* def search_epstein_files(name, max_retries=1)
BackoffSeconds == 1         \* time.sleep(1)
DefaultMinMentions == 1     \* --min-mentions default
DefaultDelayTenths == 2     \* --delay default 0.2 s, in tenths of a second

\* ------------------------------------------------------------ python data
WS == " "
None == <<"<None>">>          \* Python's None where a text value is expected
Empty == <<>>                 \* the empty string ''
NoError == "<no error key>"   \* a result dict without the 'error' key

FirstNameKey == <<"First Name">>
LastNameKey == <<"Last Name">>
CompanyKey == <<"Company">>
PositionKey == <<"Position">>

\* str.strip(): drop leading and trailing whitespace
RECURSIVE LStrip(_)
LStrip(s) == IF s # <<>> /\ Head(s) = WS THEN LStrip(Tail(s)) ELSE s

RECURSIVE RStrip(_)
RStrip(s) ==
    IF s # <<>> /\ s[Len(s)] = WS THEN RStrip(SubSeq(s, 1, Len(s) - 1)) ELSE s

Strip(s) == LStrip(RStrip(s))

\* 'marker' in line: the marker occurs somewhere in the raw text of the line
InLine(marker, line) ==
    \E f \in 1..Len(line) : \E k \in 1..Len(line[f]) : line[f][k] = marker

\* ---------------------------------------------------- parse_linkedin_contacts
IsHeaderLine(line) == InLine("First Name", line) /\ InLine("Last Name", line)

\* for line in f: ... break  -- index of the header line, 0 when there is none
RECURSIVE FindHeader(_, _)
FindHeader(file, k) ==
    IF k > Len(file) THEN 0
    ELSE IF IsHeaderLine(file[k]) THEN k
    ELSE FindHeader(file, k + 1)

\* csv.DictReader's row dict, read with row.get(key, default): the value of
\* the last column named key; restval None when the row is too short for
\* that column; default when no column has that name.
RowGet(fieldnames, row, key, default) ==
    LET cols == {c \in 1..Len(fieldnames) : fieldnames[c] = key}
        last == CHOOSE c \in cols : \A d \in cols : d <= c
    IN  IF cols = {} THEN default
        ELSE IF last <= Len(row) THEN row[last]
        ELSE None

MakeContact(first_name, last_name, fieldnames, row) ==
    [first_name |-> first_name,
     last_name |-> last_name,
     full_name |-> first_name \o <<WS>> \o last_name,
     company |-> RowGet(fieldnames, row, CompanyKey, Empty),
     position |-> RowGet(fieldnames, row, PositionKey, Empty)]

AttributeError == "AttributeError"

\* for row in reader: ...  -- contacts collected so far in acc; the result
\* is [raised |-> exception or "", contacts |-> list]
RECURSIVE ReadRows(_, _, _, _)
ReadRows(fieldnames, file, k, acc) ==
    IF k > Len(file) THEN [raised |-> "", contacts |-> acc]
    ELSE IF file[k] = <<>> THEN ReadRows(fieldnames, file, k + 1, acc)
    ELSE LET row == file[k]
             fn == RowGet(fieldnames, row, FirstNameKey, Empty)
             ln == RowGet(fieldnames, row, LastNameKey, Empty)
         IN  IF fn = None \/ ln = None
             THEN [raised |-> AttributeError, contacts |-> <<>>]
             ELSE IF Strip(fn) # Empty /\ Strip(ln) # Empty
             THEN ReadRows(fieldnames, file, k + 1,
                           Append(acc, MakeContact(Strip(fn), Strip(ln),
                                                   fieldnames, row)))
             ELSE ReadRows(fieldnames, file, k + 1, acc)

parse_linkedin_contacts(file) ==
    LET h == FindHeader(file, 1)
    IN  IF h = 0 THEN [raised |-> "", contacts |-> <<>>]
        ELSE ReadRows(file[h], file, h + 1, <<>>)

\* ------------------------------------------------------------ input files
Blank == <<>>
Preamble == << <<"Notes:">> >>
PreambleWithMarkers == << <<"Notes", WS, "First Name", WS, "Last Name">> >>
Header == <<FirstNameKey, LastNameKey, CompanyKey>>
RowAlice == << <<"Alice">>, <<"Smith">>, <<"Acme">> >>
RowBob == << <<WS, "Bob", WS>>, <<"Jones">> >>
RowBlankFirst == << <<WS>>, <<"Smith">>, <<>> >>
RowEmptyLast == << <<"Alice">>, <<>> >>
RowShort == << <<"Alice">> >>

LineKinds ==
    {Blank, Preamble, PreambleWithMarkers, Header, RowAlice, RowBob,
     RowBlankFirst, RowEmptyLast, RowShort}

Files == UNION {[1..n -> LineKinds] : n \in 0..MaxLines}

\* ------------------------------------------------------- the remote service
\* One answer to requests.get(...): exc is the RequestException raised by
\* get/raise_for_status ("" when none); otherwise the JSON body, with its
\* 'success' flag ("true", "false", "absent") and its 'data' member
\* ("present", "absent", "null").
HitsFor(h) == IF h > 0 THEN <<"hit">> ELSE <<>>

Failure(e) ==
    [exc |-> e, success |-> "absent", data |-> "absent", totalHits |-> 0,
     hits |-> <<>>]

Body(s, d, h) ==
    [exc |-> "", success |-> s, data |-> d, totalHits |-> h,
     hits |-> HitsFor(h)]

TransportFailures == {Failure("ConnectionError"), Failure("Timeout")}

Responses ==
    TransportFailures
    \cup {Body("false", "absent", 0), Body("absent", "absent", 0),
          Body("true", "absent", 0), Body("true", "null", 0)}
    \cup {Body("true", "present", h) : h \in 0..MaxHits}

NoResponse == Failure("<no response>")

\* ------------------------------------------------------ search_epstein_files
NoResult == [total_hits |-> -1, hits |-> <<>>, error |-> "<no result>"]

\* the return after the loop, reached when range(max_retries) is empty
FallThroughResult == [total_hits |-> 0, hits |-> <<>>, error |-> NoError]

\* variant: the error result without its 'error' key
ErrorResultWithoutIndicator(e) ==
    [total_hits |-> 0, hits |-> <<>>, error |-> NoError]

ErrorResult(e) == [total_hits |-> 0, hits |-> <<>>, error |-> e]

SuccessResult(r) ==
    IF r.data = "absent"
    THEN [total_hits |-> 0, hits |-> <<>>, error |-> NoError]
    ELSE [total_hits |-> r.totalHits, hits |-> r.hits, error |-> NoError]

\* variant: an unsuccessful response reported as an error
UnsuccessfulAsError ==
    [total_hits |-> 0, hits |-> <<>>, error |-> "unsuccessful"]

UnsuccessfulResult == [total_hits |-> 0, hits |-> <<>>, error |-> NoError]

\* variant: the retry test reads  attempt < max_retries
OnRequestExceptionAlwaysRetries(att, retries, e) ==
    IF att < retries
    THEN [next |-> "continue", slept |-> TRUE, result |-> NoResult]
    ELSE [next |-> "return", slept |-> FALSE,
          result |-> [total_hits |-> 0, hits |-> <<>>, error |-> e]]

\* except requests.exceptions.RequestException as e
OnRequestException(att, retries, e) ==
    IF att < retries - 1
    THEN [next |-> "continue", slept |-> TRUE, result |-> NoResult]
    ELSE [next |-> "return", slept |-> FALSE, result |-> ErrorResult(e)]

\* the try block once response.json() has returned
OnResponse(r) ==
    IF r.success = "true"
    THEN IF r.data = "null"
         THEN [next |-> "raise", slept |-> FALSE, result |-> NoResult]
         ELSE [next |-> "return", slept |-> FALSE, result |-> SuccessResult(r)]
    ELSE [next |-> "return", slept |-> FALSE, result |-> UnsuccessfulResult]

\* one iteration of  for attempt in range(max_retries)
SearchStep(att, retries, r) ==
    IF r.exc # "" THEN OnRequestException(att, retries, r.exc)
    ELSE OnResponse(r)

\* ------------------------------------------------------ generate_html_report
ContactsWithMentions(rs) ==
    Cardinality({k \in 1..Len(rs) : rs[k].total_mentions > 0})

TotalContactsSearched(rs) == Len(rs)

HasDetailBlock(r) == r.total_mentions # 0

Block(r) == [name |-> r.name, mentions |-> r.total_mentions, hits |-> r.hits]

RECURSIVE Blocks(_)
Blocks(rs) ==
    IF rs = <<>> THEN <<>>
    ELSE IF HasDetailBlock(Head(rs))
    THEN <<Block(Head(rs))>> \o Blocks(Tail(rs))
    ELSE Blocks(Tail(rs))

generate_html_report(rs) ==
    [total |-> TotalContactsSearched(rs),
     with_mentions |-> ContactsWithMentions(rs),
     blocks |-> Blocks(rs)]

\* ------------------------------------------------------------------- main
\* results.sort(key=lambda x: x['total_mentions'], reverse=True): a stable
\* sort; an element goes behind every element whose key is not smaller.
RECURSIVE InsertDesc(_, _)
InsertDesc(sorted, r) ==
    IF sorted = <<>> THEN <<r>>
    ELSE IF Head(sorted).total_mentions >= r.total_mentions
    THEN <<Head(sorted)>> \o InsertDesc(Tail(sorted), r)
    ELSE <<r>> \o sorted

RECURSIVE SortFrom(_, _)
SortFrom(rs, sorted) ==
    IF rs = <<>> THEN sorted
    ELSE SortFrom(Tail(rs), InsertDesc(sorted, Head(rs)))

\* variant: a descending sort that reverses the elements of equal key
RECURSIVE InsertDescUnstable(_, _)
InsertDescUnstable(sorted, r) ==
    IF sorted = <<>> THEN <<r>>
    ELSE IF Head(sorted).total_mentions > r.total_mentions
    THEN <<Head(sorted)>> \o InsertDescUnstable(Tail(sorted), r)
    ELSE <<r>> \o sorted

RECURSIVE SortFromUnstable(_, _)
SortFromUnstable(rs, sorted) ==
    IF rs = <<>> THEN sorted
    ELSE SortFromUnstable(Tail(rs), InsertDescUnstable(sorted, Head(rs)))

SortUnstable(rs) == SortFromUnstable(rs, <<>>)

SortByMentionsDesc(rs) == SortFrom(rs, <<>>)

\* variant: the threshold test reads  total_mentions > args.min_mentions
PassesThresholdStrict(total_mentions, min_mentions) ==
    total_mentions > min_mentions

\* if total_mentions >= args.min_mentions
PassesThreshold(total_mentions, min_mentions) == total_mentions >= min_mentions

MakeResult(contact, sr) ==
    [name |-> contact.full_name,
     first_name |-> contact.first_name,
     last_name |-> contact.last_name,
     company |-> contact.company,
     position |-> contact.position,
     total_mentions |-> sr.total_hits,
     hits |-> sr.hits]

\* variant: the loop stops one contact early
LoopEndsOneEarly(idx, n) == idx >= n - 1

\* the for loop over enumerate(contacts) is over once idx reaches n
LoopEnds(idx, n) == idx >= n

\* variant: the delay test without  i < len(contacts) - 1
DelayAfterEveryLookup(delay, idx, n) == delay > 0

\* if args.delay > 0 and i < len(contacts) - 1   (i counts from 0)
DelayApplies(delay, idx, n) == delay > 0 /\ idx < n - 1

\* ------------------------------------------------------------------ state
VARIABLES
    HAS_REQUESTS,   \* module flag: the requests library could be imported
    pc,             \* where main (or the function under test) stands
    args,           \* the parsed command line
    csv_file,       \* content of the file handed to parse_linkedin_contacts
    contacts,       \* contacts returned by parse_linkedin_contacts
    i,              \* index of the loop over contacts, from 0
    results,        \* main's accumulating list of results
    name,           \* search_epstein_files: the name searched
    max_retries,    \* search_epstein_files: its max_retries argument
    attempt,        \* search_epstein_files: the loop variable
    spc,            \* search_epstein_files: "idle", "loop", "returned", "raised"
    response,       \* search_epstein_files: the answer to the last request
    search_result,  \* value returned by search_epstein_files
    lookups,        \* the search results main received, one per contact
    events,         \* lookups, HTTP requests, sleeps and file writes, in order
    written,        \* documents written to the output path, in order
    message,        \* the fatal diagnostic printed, "" when none
    exit_status     \* process exit status, -1 while running or when killed

vars ==
    <<HAS_REQUESTS, pc, args, csv_file, contacts, i, results, name,
      max_retries, attempt, spc, response, search_result, lookups, events,
      written, message, exit_status>>

searchVars == <<name, max_retries, attempt, spc, response, search_result>>

NoPath == "<no --contacts>"
MissingPath == "absent.csv"
UnreadablePath == "unreadable.csv"
GoodPath == "Connections.csv"
Paths == {NoPath, MissingPath, UnreadablePath, GoodPath}

\* os.path.exists(path)
PathExists(path) == path \in {UnreadablePath, GoodPath}

\* open(path, 'r') succeeds
PathReadable(path) == path = GoodPath

MinMentionsChoices == {-1, 0, DefaultMinMentions, DefaultMinMentions + 1}
DelayChoices == {0, DefaultDelayTenths}

NoArgs == [contacts |-> NoPath, min_mentions |-> 0, delay |-> 0]

Event(e, a) == [ev |-> e, arg |-> a]

Names == {<<"Alice", WS, "Smith">>, <<"Bob", WS, "Jones">>}

Idle ==
    /\ name = <<>>
    /\ max_retries = 0
    /\ attempt = 0
    /\ spc = "idle"
    /\ response = NoResponse
    /\ search_result = NoResult

InitCommon ==
    /\ args = NoArgs
    /\ contacts = <<>>
    /\ i = 0
    /\ results = <<>>
    /\ lookups = <<>>
    /\ events = <<>>
    /\ written = <<>>
    /\ message = ""
    /\ exit_status = -1

\* the process before main runs
Init ==
    /\ HAS_REQUESTS \in BOOLEAN
    /\ pc = "start"
    /\ csv_file = <<>>
    /\ Idle
    /\ InitCommon

\* sys.exit(status), or an uncaught exception (status 1)
Exit(status, msg) ==
    /\ pc' = "exited"
    /\ exit_status' = status
    /\ message' = msg

\* main: if not HAS_REQUESTS ... ; args = parser.parse_args()
ParseArgs ==
    /\ pc = "start"
    /\ IF ~HAS_REQUESTS
       THEN /\ Exit(1, "requests library is required")
            /\ args' = args
       ELSE /\ \E path \in Paths, m \in MinMentionsChoices, d \in DelayChoices :
                 args' = [contacts |-> path, min_mentions |-> m, delay |-> d]
            /\ pc' = "validate"
            /\ UNCHANGED <<exit_status, message>>
    /\ UNCHANGED <<HAS_REQUESTS, csv_file, contacts, i, results, lookups,
                   events, written>>
    /\ UNCHANGED searchVars

\* main: # Validate inputs
ValidateInputs ==
    /\ pc = "validate"
    /\ IF args.contacts = NoPath
       THEN Exit(1, "No contacts file specified")
       ELSE IF ~PathExists(args.contacts)
       THEN Exit(1, "Contacts file not found")
       ELSE /\ pc' = "parse"
            /\ UNCHANGED <<exit_status, message>>
    /\ UNCHANGED <<HAS_REQUESTS, args, csv_file, contacts, i, results,
                   lookups, events, written>>
    /\ UNCHANGED searchVars

\* main: contacts = parse_linkedin_contacts(args.contacts); if not contacts
ParseContacts ==
    /\ pc = "parse"
    /\ IF ~PathReadable(args.contacts)
       THEN /\ Exit(1, "Traceback: open")
            /\ UNCHANGED contacts
       ELSE \E file \in Files :
              LET out == parse_linkedin_contacts(file)
              IN  IF out.raised # ""
                  THEN /\ Exit(1, "Traceback: parse_linkedin_contacts")
                       /\ UNCHANGED contacts
                  ELSE /\ contacts' = out.contacts
                       /\ IF out.contacts = <<>>
                          THEN Exit(1, "No contacts found in CSV")
                          ELSE /\ pc' = "loop"
                               /\ UNCHANGED <<exit_status, message>>
    /\ UNCHANGED <<HAS_REQUESTS, args, csv_file, i, results, lookups, events,
                   written>>
    /\ UNCHANGED searchVars

\* main: for i, contact in enumerate(contacts):
\*           search_result = search_epstein_files(contact['full_name'])
LoopLookup ==
    /\ pc = "loop"
    /\ pc' = "search"
    /\ name' = contacts[i + 1].full_name
    /\ max_retries' = DefaultMaxRetries
    /\ attempt' = 0
    /\ spc' = "loop"
    /\ events' = Append(events, Event("lookup", i))
    /\ UNCHANGED <<HAS_REQUESTS, args, csv_file, contacts, i, results,
                   response, search_result, lookups, written, message,
                   exit_status>>

\* search_epstein_files: one pass of the loop body -- a request and what
\* follows it
SearchAttempt ==
    /\ spc = "loop"
    /\ attempt < max_retries
    /\ \E r \in Responses :
         LET step == SearchStep(attempt, max_retries, r)
         IN  /\ response' = r
             /\ events' =
                  IF step.slept
                  THEN events \o <<Event("GET", attempt),
                                   Event("backoff", BackoffSeconds)>>
                  ELSE Append(events, Event("GET", attempt))
             /\ attempt' = IF step.next = "continue" THEN attempt + 1 ELSE attempt
             /\ spc' = CASE step.next = "continue" -> "loop"
                         [] step.next = "return" -> "returned"
                         [] OTHER -> "raised"
             /\ search_result' = step.result
    /\ UNCHANGED <<HAS_REQUESTS, pc, args, csv_file, contacts, i, results,
                   name, max_retries, lookups, written, message, exit_status>>

\* search_epstein_files: the loop is over without a return
SearchFallThrough ==
    /\ spc = "loop"
    /\ attempt >= max_retries
    /\ spc' = "returned"
    /\ search_result' = FallThroughResult
    /\ UNCHANGED <<HAS_REQUESTS, pc, args, csv_file, contacts, i, results,
                   name, max_retries, attempt, response, lookups, events,
                   written, message, exit_status>>

\* main: the rest of the loop body once search_epstein_files is over
LoopCollect ==
    /\ pc = "search"
    /\ spc \in {"returned", "raised"}
    /\ IF spc = "raised"
       THEN /\ Exit(1, "Traceback: search_epstein_files")
            /\ UNCHANGED <<results, lookups, events, i>>
       ELSE LET total_mentions == search_result.total_hits
            IN  /\ lookups' = Append(lookups, search_result)
                /\ results' =
                     IF PassesThreshold(total_mentions, args.min_mentions)
                     THEN Append(results,
                                 MakeResult(contacts[i + 1], search_result))
                     ELSE results
                /\ events' =
                     IF DelayApplies(args.delay, i, Len(contacts))
                     THEN Append(events, Event("delay", args.delay))
                     ELSE events
                /\ i' = i + 1
                /\ pc' = IF LoopEnds(i + 1, Len(contacts)) THEN "sort"
                         ELSE "loop"
                /\ UNCHANGED <<exit_status, message>>
    /\ name' = <<>>
    /\ max_retries' = 0
    /\ attempt' = 0
    /\ spc' = "idle"
    /\ response' = NoResponse
    /\ search_result' = NoResult
    /\ UNCHANGED <<HAS_REQUESTS, args, csv_file, contacts, written>>

\* main: results.sort(...)
SortResults ==
    /\ pc = "sort"
    /\ results' = SortByMentionsDesc(results)
    /\ pc' = "write"
    /\ UNCHANGED <<HAS_REQUESTS, args, csv_file, contacts, i, lookups, events,
                   written, message, exit_status>>
    /\ UNCHANGED searchVars

\* main: generate_html_report(results, args.output), the summary, the end
WriteReport ==
    /\ pc = "write"
    /\ written' = Append(written, generate_html_report(results))
    /\ events' = Append(events, Event("write", Len(results)))
    /\ Exit(0, "")
    /\ UNCHANGED <<HAS_REQUESTS, args, csv_file, contacts, i, results,
                   lookups>>
    /\ UNCHANGED searchVars

\* the process is terminated from outside while main runs: what it held in
\* memory is lost, what it did to the outside remains
Interrupt ==
    /\ pc \in {"start", "validate", "parse", "loop", "search", "sort", "write"}
    /\ pc' = "killed"
    /\ args' = NoArgs
    /\ contacts' = <<>>
    /\ i' = 0
    /\ results' = <<>>
    /\ lookups' = <<>>
    /\ name' = <<>>
    /\ max_retries' = 0
    /\ attempt' = 0
    /\ spc' = "idle"
    /\ response' = NoResponse
    /\ search_result' = NoResult
    /\ UNCHANGED <<HAS_REQUESTS, csv_file, events, written, message,
                   exit_status>>

Next ==
    \/ ParseArgs
    \/ ValidateInputs
    \/ ParseContacts
    \/ LoopLookup
    \/ SearchAttempt
    \/ LoopCollect
    \/ SortResults
    \/ WriteReport
    \/ Interrupt

Spec == Init /\ [][Next]_vars

\* ------------------------------------ search_epstein_files called on its own
SearchInit ==
    /\ HAS_REQUESTS = TRUE
    /\ pc = "search_epstein_files"
    /\ csv_file = <<>>
    /\ InitCommon
    /\ name \in Names
    /\ max_retries \in 0..MaxRetries
    /\ attempt = 0
    /\ spc = "loop"
    /\ response = NoResponse
    /\ search_result = NoResult

SearchNext == SearchAttempt \/ SearchFallThrough

SearchSpec == SearchInit /\ [][SearchNext]_vars

\* --------------------------------- parse_linkedin_contacts called on its own
ParseInit ==
    /\ HAS_REQUESTS = TRUE
    /\ pc = "parse_linkedin_contacts"
    /\ csv_file \in Files
    /\ Idle
    /\ InitCommon

ParseCall ==
    /\ pc = "parse_linkedin_contacts"
    /\ LET out == parse_linkedin_contacts(csv_file)
       IN  /\ contacts' = out.contacts
           /\ message' = out.raised
           /\ pc' = IF out.raised = "" THEN "returned" ELSE "raised"
    /\ UNCHANGED <<HAS_REQUESTS, args, csv_file, i, results, lookups, events,
                   written, exit_status>>
    /\ UNCHANGED searchVars

ParseNext == ParseCall

ParseSpec == ParseInit /\ [][ParseNext]_vars

\* =================================================================== claims
Count(seq, P(_)) == Cardinality({k \in 1..Len(seq) : P(seq[k])})

Finished == pc = "exited" /\ exit_status = 0

\* ----------------------------------------------------------------------- C1
\* C1: in every report written, 'Total contacts searched' is the number of
\* contacts that were looked up and 'Contacts with mentions' the number of
\* them with at least one mention; for Alice Smith with 5 hits, Bob Jones
\* with 0 and threshold 1 the report shows 2, 1 and the one block of Alice
\* with 5 mentions.
AliceBobRun ==
    /\ Len(contacts) = 2
    /\ contacts[1].full_name = <<"Alice", WS, "Smith">>
    /\ contacts[2].full_name = <<"Bob", WS, "Jones">>
    /\ Len(lookups) = 2
    /\ lookups[1].total_hits = 5
    /\ lookups[2].total_hits = 0
    /\ args.min_mentions = 1

C1_ReportSummaryCountsProcessedContacts ==
    \A w \in 1..Len(written) :
        /\ written[w].total = Len(lookups)
        /\ written[w].with_mentions =
               Count(lookups, LAMBDA sr : sr.total_hits > 0)
        /\ AliceBobRun =>
               /\ written[w].total = 2
               /\ written[w].with_mentions = 1
               /\ Len(written[w].blocks) = 1
               /\ written[w].blocks[1].name = <<"Alice", WS, "Smith">>
               /\ written[w].blocks[1].mentions = 5

\* ----------------------------------------------------------------------- C2
\* C2: a run that ends by itself has a non-zero exit status exactly when no
\* input path was given, the input file does not exist or cannot be read, or
\* no contact was parsed, and then no lookup was issued and no report
\* written; every other run ends with status zero, whatever the remote
\* answered.  (Stated for the runs in which the requests library is present
\* and the parser returned; the claim says nothing of the others.)
FatalConfigurationMessages ==
    {"No contacts file specified", "Contacts file not found",
     "Traceback: open", "No contacts found in CSV"}

C2_ExitStatusNonZeroOnlyOnFatalConfiguration ==
    (/\ pc = "exited"
     /\ HAS_REQUESTS
     /\ message # "Traceback: parse_linkedin_contacts")
    => /\ exit_status # 0 <=> message \in FatalConfigurationMessages
       /\ message \in FatalConfigurationMessages =>
              events = <<>> /\ written = <<>>

\* ----------------------------------------------------------------------- C3
\* C3: when the lookup of a contact ended in a transport failure on its last
\* attempt, the result has zero hits, no hit and an error indicator; main
\* then goes on with the loop instead of exiting, and does not add the
\* contact to the results when the threshold is above zero; a run in which
\* every lookup returned ends with the report written and status zero.
LookupFailed == pc = "search" /\ spc = "returned" /\ response.exc # ""

C3_FailedLookupStep ==
    (LookupFailed /\ pc' # "killed") =>
        /\ search_result.total_hits = 0
        /\ search_result.hits = <<>>
        /\ search_result.error # NoError
        /\ pc' \in {"loop", "sort"}
        /\ exit_status' = -1
        /\ lookups' = Append(lookups, search_result)
        /\ args.min_mentions > 0 => results' = results

C3_RunOutlivesFailures ==
    (pc = "exited" /\ events # <<>> /\ Len(lookups) = Len(contacts)) =>
        /\ exit_status = 0
        /\ Len(written) = 1
        /\ args.min_mentions > 0 =>
               Len(written[1].blocks) <=
                   Count(lookups, LAMBDA sr : sr.error = NoError)

C3_FailedLookupIsZeroHitsAndNotFatal ==
    [][C3_FailedLookupStep]_vars /\ []C3_RunOutlivesFailures

C3_Witness ==
    /\ Finished
    /\ Len(written) = 1
    /\ Len(contacts) = 2
    /\ Len(lookups) = 2
    /\ lookups[1].error = "Timeout"
    /\ lookups[1].total_hits = 0
    /\ lookups[2].total_hits > 0
    /\ args.min_mentions > 0
    /\ Len(results) = 1
    /\ results[1].name = contacts[2].full_name

\* ----------------------------------------------------------------------- C4
\* C4: the results handed to generate_html_report are in descending order of
\* hit count, and the results of any one hit count stand in the order their
\* contacts have in the parsed input.
Sorted(rs) ==
    \A a, b \in 1..Len(rs) :
        a < b => rs[a].total_mentions >= rs[b].total_mentions

RECURSIVE KeptInInputOrder(_, _)
KeptInInputOrder(k, m) ==
    IF k > Len(lookups) THEN <<>>
    ELSE IF lookups[k].total_hits = m /\ m >= args.min_mentions
    THEN <<contacts[k].full_name>> \o KeptInInputOrder(k + 1, m)
    ELSE KeptInInputOrder(k + 1, m)

RECURSIVE NamesWith(_, _)
NamesWith(rs, m) ==
    IF rs = <<>> THEN <<>>
    ELSE IF Head(rs).total_mentions = m
    THEN <<Head(rs).name>> \o NamesWith(Tail(rs), m)
    ELSE NamesWith(Tail(rs), m)

C4_ResultsSortedDescendingStable ==
    (pc = "write" \/ written # <<>>) =>
        /\ Sorted(results)
        /\ \A m \in 0..(MaxHits + 1) :
               NamesWith(results, m) = KeptInInputOrder(1, m)

C4_Witness ==
    /\ pc = "write"
    /\ Len(results) = 2
    /\ results[1].total_mentions = results[2].total_mentions
    /\ results[1].name # results[2].name
    /\ results[1].name = contacts[1].full_name

\* ----------------------------------------------------------------------- C5
\* C5: with a positive delay and n contacts the lookups happen one at a
\* time, in input order, one request each; a delay follows the lookup of
\* every contact but the last and comes before the next lookup, so a run
\* that completes has slept n-1 times and never after the final lookup.
IsLookup(e) == e.ev = "lookup"
IsDelay(e) == e.ev = "delay"

C5_DelayBetweenSuccessiveLookupsOnly ==
    (args.delay > 0 /\ contacts # <<>>) =>
        /\ \A p \in 1..Len(events) :
             /\ IsLookup(events[p]) =>
                  /\ events[p].arg = Count(SubSeq(events, 1, p - 1), IsLookup)
                  /\ p > 1 => IsDelay(events[p - 1])
                  /\ p < Len(events) => events[p + 1].ev = "GET"
             /\ IsDelay(events[p]) =>
                  /\ events[p].arg = args.delay
                  /\ p > 2
                  /\ events[p - 1].ev = "GET"
                  /\ IsLookup(events[p - 2])
                  /\ events[p - 2].arg < Len(contacts) - 1
                  /\ p < Len(events) => IsLookup(events[p + 1])
             /\ events[p].ev = "GET" => p > 1 /\ IsLookup(events[p - 1])
        /\ Count(events, IsDelay) =
               IF i < Len(contacts) THEN i ELSE Len(contacts) - 1
        /\ Finished =>
               /\ Count(events, IsLookup) = Len(contacts)
               /\ Count(events, IsDelay) = Len(contacts) - 1

C5_Witness ==
    /\ Finished
    /\ args.delay > 0
    /\ Len(contacts) = 2
    /\ Count(events, IsDelay) = 1
    /\ events[Len(events)].ev = "write"
    /\ events[Len(events) - 1].ev = "GET"

\* ----------------------------------------------------------------------- C6
\* C6: parse_linkedin_contacts returns, in file order, one contact for each
\* row behind the first line holding both header markers whose first-name
\* and last-name fields are both non-empty once trimmed; a row missing
\* either name gives no contact, the lines before the header are skipped,
\* and a file without a header line gives the empty list, never an error.
HeaderLines(file) == {k \in 1..Len(file) : IsHeaderLine(file[k])}

FirstHeader(file) ==
    CHOOSE k \in HeaderLines(file) : \A j \in HeaderLines(file) : k <= j

\* the field of a row under the column named key, '' when the row has none
FieldUnder(header, row, key) ==
    IF \E c \in 1..Len(header) : header[c] = key /\ c <= Len(row)
    THEN row[CHOOSE c \in 1..Len(header) : header[c] = key /\ c <= Len(row)]
    ELSE Empty

HasBothNames(header, row) ==
    /\ Strip(FieldUnder(header, row, FirstNameKey)) # Empty
    /\ Strip(FieldUnder(header, row, LastNameKey)) # Empty

RECURSIVE NamedRows(_, _, _)
NamedRows(header, file, k) ==
    IF k > Len(file) THEN <<>>
    ELSE IF HasBothNames(header, file[k])
    THEN << <<Strip(FieldUnder(header, file[k], FirstNameKey)),
              Strip(FieldUnder(header, file[k], LastNameKey))>> >>
         \o NamedRows(header, file, k + 1)
    ELSE NamedRows(header, file, k + 1)

ExpectedNames(file) ==
    IF HeaderLines(file) = {} THEN <<>>
    ELSE NamedRows(file[FirstHeader(file)], file, FirstHeader(file) + 1)

C6_ParseReturnsOneContactPerNamedRow ==
    pc \in {"returned", "raised"} =>
        /\ pc = "returned"
        /\ Len(contacts) = Len(ExpectedNames(csv_file))
        /\ \A k \in 1..Len(contacts) :
               <<contacts[k].first_name, contacts[k].last_name>>
                   = ExpectedNames(csv_file)[k]

\* ----------------------------------------------------------------------- C7
\* C7: a call with max_retries = N issues at most N requests; every request
\* but the first follows a backoff that follows a request ended by a
\* transport failure (a timeout is one); a backoff is never the last thing
\* the call does, so there are at most N-1 of them; the call is over at the
\* first response that is not a transport failure.
IsGet(e) == e.ev = "GET"
IsBackoff(e) == e.ev = "backoff"

C7_AtMostNAttemptsBackoffOnlyBetween ==
    pc = "search_epstein_files" =>
        /\ Count(events, IsGet) <= max_retries
        /\ Count(events, IsBackoff) <= Count(events, IsGet)
        /\ Count(events, IsBackoff) > 0 =>
               Count(events, IsBackoff) <= max_retries - 1
        /\ \A p \in 1..Len(events) :
             /\ IsGet(events[p]) =>
                  /\ events[p].arg = Count(SubSeq(events, 1, p - 1), IsGet)
                  /\ p > 1 => IsBackoff(events[p - 1])
             /\ IsBackoff(events[p]) =>
                  /\ events[p].arg = BackoffSeconds
                  /\ p > 1 /\ IsGet(events[p - 1])
                  /\ p = Len(events) => spc = "loop" /\ attempt < max_retries
        /\ (spc = "loop" /\ events # <<>>) =>
               /\ response \in TransportFailures
               /\ IsBackoff(events[Len(events)])
        /\ (response # NoResponse /\ response.exc = "") =>
               /\ spc \in {"returned", "raised"}
               /\ IsGet(events[Len(events)])
        /\ spc \in {"returned", "raised"} =>
               Count(events, IsBackoff) = attempt

C7_Witness ==
    /\ pc = "search_epstein_files"
    /\ max_retries = 3
    /\ spc = "returned"
    /\ Count(events, IsGet) = 3
    /\ Count(events, IsBackoff) = 2
    /\ response = Failure("Timeout")
    /\ search_result.error = "Timeout"

\* ----------------------------------------------------------------------- C8
\* C8: a response whose success flag is false or absent ends the call at
\* once: the result has zero hits, no hit and no error indicator, no
\* further request and no backoff follow; the result equals that of a
\* success with zero hits and differs from every transport-error result.
Unsuccessful(r) == r # NoResponse /\ r.exc = "" /\ r.success # "true"

C8_UnsuccessfulResponseIsZeroHits ==
    (pc = "search_epstein_files" /\ Unsuccessful(response)) =>
        /\ spc = "returned"
        /\ search_result.total_hits = 0
        /\ search_result.hits = <<>>
        /\ search_result.error = NoError
        /\ IsGet(events[Len(events)])
        /\ Count(events, IsGet) = attempt + 1
        /\ Count(events, IsBackoff) = attempt
        /\ search_result = SuccessResult(Body("true", "present", 0))
        /\ \A f \in TransportFailures : search_result # ErrorResult(f.exc)

C8_Witness ==
    /\ pc = "search_epstein_files"
    /\ spc = "returned"
    /\ max_retries = 3
    /\ attempt = 1
    /\ response = Body("false", "absent", 0)
    /\ search_result.total_hits = 0
    /\ Count(events, IsGet) = 2

\* ----------------------------------------------------------------------- C9
\* C9: a looked-up contact is in the results exactly when its hit count is
\* at least the threshold; a written report has one detail block for each
\* result with a hit count above zero and none for the others, so with a
\* threshold of zero or less a zero-mention contact counts in the report's
\* total but has no block and does not count among those with mentions.
C9_TwoTierFiltering ==
    /\ \A m \in 0..(MaxHits + 1) :
           Count(results, LAMBDA r : r.total_mentions = m) =
               IF m >= args.min_mentions
               THEN Count(lookups, LAMBDA sr : sr.total_hits = m)
               ELSE 0
    /\ Len(results) =
           Count(lookups, LAMBDA sr : sr.total_hits >= args.min_mentions)
    /\ \A w \in 1..Len(written) :
         /\ written[w].total = Len(results)
         /\ written[w].with_mentions =
                Count(results, LAMBDA r : r.total_mentions > 0)
         /\ Len(written[w].blocks) =
                Count(results, LAMBDA r : r.total_mentions > 0)
         /\ \A b \in 1..Len(written[w].blocks) :
              /\ written[w].blocks[b].mentions > 0
              /\ written[w].blocks[b].mentions >= args.min_mentions
         /\ args.min_mentions <= 0 =>
              /\ written[w].total = Len(lookups)
              /\ written[w].with_mentions =
                     Count(lookups, LAMBDA sr : sr.total_hits > 0)

C9_Witness ==
    /\ Finished
    /\ args.min_mentions = 0
    /\ Len(lookups) = 2
    /\ lookups[1].total_hits = 0
    /\ lookups[2].total_hits = 3
    /\ written[1].total = 2
    /\ written[1].with_mentions = 1
    /\ Len(written[1].blocks) = 1
    /\ written[1].blocks[1].mentions = 3

\* ---------------------------------------------------------------------- C10
\* C10: the report is written at most once, and exactly once in a run that
\* completes; it is written only when every parsed contact has been looked
\* up and the results are sorted, as the last thing that happens; until
\* then, and in a run killed before then, nothing has been written.
IsWrite(e) == e.ev = "write"

C10_ReportWrittenOnceAfterAllLookups ==
    /\ Len(written) <= 1
    /\ Count(events, IsWrite) = Len(written)
    /\ Finished => Len(written) = 1
    /\ written # <<>> =>
         /\ pc = "exited"
         /\ contacts # <<>>
         /\ Len(lookups) = Len(contacts)
         /\ Count(events, IsLookup) = Len(contacts)
         /\ Sorted(results)
         /\ IsWrite(events[Len(events)])
    /\ (Len(lookups) < Len(contacts) \/ pc # "exited") => written = <<>>

C10_Witness ==
    /\ pc = "killed"
    /\ Count(events, IsLookup) = 1
    /\ events # <<>>
    /\ IsDelay(events[Len(events)])
    /\ written = <<>>

====
